---- MODULE Spec2Model ----
(***************************************************************************)
(* A model of src/model_forge.py: the generator that turns a reflected     *)
(* database schema into SQLAlchemy model source text.                      *)
(*                                                                         *)
(* Python strings on which the code computes (table names, raw type        *)
(* names) are sequences of one-character strings, so that lower(),         *)
(* title(), re.sub, the `in` substring test and f-string concatenation are *)
(* computed character by character.  Strings the code only copies (column  *)
(* names) are TLA+ strings.  An f-string with several holes is modelled by *)
(* the record of the values that fill its holes.                           *)
(***************************************************************************)
EXTENDS Integers, Sequences, FiniteSets, TLC

VARIABLES inspector, call, result, col

vars == <<inspector, call, result, col>>

-----------------------------------------------------------------------------
(* Characters and the str methods the code uses                            *)

UpperChars == <<"A","B","C","D","E","F","G","H","I","J","K","L","M",
                "N","O","P","Q","R","S","T","U","V","W","X","Y","Z">>

LowerChars == <<"a","b","c","d","e","f","g","h","i","j","k","l","m",
                "n","o","p","q","r","s","t","u","v","w","x","y","z">>

Range(s) == {s[i] : i \in DOMAIN s}

UpperSet == Range(UpperChars)
LowerSet == Range(LowerChars)

IsUpper(c) == c \in UpperSet
IsLower(c) == c \in LowerSet
IsCased(c) == IsUpper(c) \/ IsLower(c)

LowerOf == [c \in UpperSet |-> LowerChars[CHOOSE i \in DOMAIN UpperChars : UpperChars[i] = c]]
UpperOf == [c \in LowerSet |-> UpperChars[CHOOSE i \in DOMAIN LowerChars : LowerChars[i] = c]]

\* str.lower() and str.upper() on one character
ToLower(c) == IF IsUpper(c) THEN LowerOf[c] ELSE c
ToUpper(c) == IF IsLower(c) THEN UpperOf[c] ELSE c

\* str.lower()
lower(s) == [i \in DOMAIN s |-> ToLower(s[i])]

\* str.title(): a cased character is upper-cased when the character before
\* it is not cased, and lower-cased otherwise; other characters are kept.
title(s) ==
    [i \in DOMAIN s |->
        IF ~IsCased(s[i]) THEN s[i]
        ELSE IF i > 1 /\ IsCased(s[i-1]) THEN ToLower(s[i])
        ELSE ToUpper(s[i])]

\* needle in hay  (Python's substring test)
Contains(hay, needle) ==
    \E i \in 1..(Len(hay) - Len(needle) + 1) :
        SubSeq(hay, i, i + Len(needle) - 1) = needle

-----------------------------------------------------------------------------
(* get_column_type                                                         *)

\* type_map, in insertion order (dict iteration order)
type_map == <<
    [key |-> <<"i","n","t","e","g","e","r">>,         value |-> "Integer"],
    [key |-> <<"b","i","g","i","n","t">>,             value |-> "Integer"],
    [key |-> <<"s","m","a","l","l","i","n","t">>,     value |-> "Integer"],
    [key |-> <<"v","a","r","c","h","a","r">>,         value |-> "String"],
    [key |-> <<"t","e","x","t">>,                     value |-> "String"],
    [key |-> <<"f","l","o","a","t">>,                 value |-> "Float"],
    [key |-> <<"r","e","a","l">>,                     value |-> "Float"],
    [key |-> <<"n","u","m","e","r","i","c">>,         value |-> "Float"],
    [key |-> <<"d","a","t","e","t","i","m","e">>,     value |-> "DateTime"],
    [key |-> <<"t","i","m","e","s","t","a","m","p">>, value |-> "DateTime"],
    [key |-> <<"d","a","t","e">>,                     value |-> "DateTime"] >>

\* the loop of lines 23-25 from the i-th key on: the first key that is a
\* substring of col_type decides; line 26 when there is none
RECURSIVE first_match(_, _)
first_match(col_type, i) ==
    IF i > Len(type_map) THEN "String"
    ELSE IF Contains(col_type, type_map[i].key) THEN type_map[i].value
    ELSE first_match(col_type, i + 1)

\* a faulty variant: the lookup without the .lower() of line 22
get_column_type_case_sensitive(c) == first_match(c.type, 1)

get_column_type(c) == first_match(lower(c.type), 1)

-----------------------------------------------------------------------------
(* camel_case                                                              *)

IsSeparator(c) == c \in {"_", "-"}

\* re.sub(r"([_\-])+", " ", s): every maximal run of '_' and '-' becomes
\* one space
RECURSIVE sub_separators(_)
sub_separators(s) ==
    IF s = <<>> THEN <<>>
    ELSE IF ~IsSeparator(Head(s)) THEN <<Head(s)>> \o sub_separators(Tail(s))
    ELSE IF Len(s) > 1 /\ IsSeparator(s[2]) THEN sub_separators(Tail(s))
    ELSE <<" ">> \o sub_separators(Tail(s))

\* str.replace(" ", "")
remove_spaces(s) == SelectSeq(s, LAMBDA c : c # " ")

\* s[0] is evaluated on the joined words: a name made of separators and
\* spaces only has none, and Python raises IndexError there (t[1] is then
\* undefined here as well).
camel_case(s) ==
    LET t == remove_spaces(title(sub_separators(s)))
    IN  <<ToUpper(t[1])>> \o Tail(t)

-----------------------------------------------------------------------------
(* The inspector: the reflected schema the functions read                  *)
(*   inspector.tables      the table names, in enumeration order           *)
(*   inspector.meta[t]     columns, pk (constrained_columns of the primary *)
(*                         key) and fks (the foreign-key records) of t     *)

get_table_names(insp) == insp.tables
get_columns(insp, t) == insp.meta[t].columns
get_foreign_keys(insp, t) == insp.meta[t].fks
get_pk_constraint(insp, t) == [constrained_columns |-> insp.meta[t].pk]

-----------------------------------------------------------------------------
(* is_association_table                                                    *)

\* a faulty variant: the foreign-key columns need only lie inside the primary key
is_association_table_subset(table_name, fks, insp) ==
    IF Len(fks) # 2 THEN FALSE
    ELSE LET pk_columns == Range(get_pk_constraint(insp, table_name).constrained_columns)
             fk_columns == UNION {Range(fks[i].constrained_columns) : i \in DOMAIN fks}
         IN  fk_columns \subseteq pk_columns

is_association_table(table_name, fks, insp) ==
    IF Len(fks) # 2 THEN FALSE
    ELSE LET pk_columns == Range(get_pk_constraint(insp, table_name).constrained_columns)
             fk_columns == UNION {Range(fks[i].constrained_columns) : i \in DOMAIN fks}
         IN  pk_columns = fk_columns

-----------------------------------------------------------------------------
(* generate_relationships                                                  *)
(* A declaration is the record of the values its f-string is filled with:  *)
(*   [name, target]                       name = relationship('target')    *)
(*   [name, target, back_populates]       ... , back_populates='...')      *)
(*   [name, target, secondary, back_populates]                             *)

\* a faulty variant: only the first constrained column is looked at
relationship_of_first_column(table_name, fk, insp) ==
    LET parent_class == camel_case(fk.referred_table)
        relationship_name == lower(fk.referred_table)
    IN  IF fk.constrained_columns[1] \notin
               Range(get_pk_constraint(insp, table_name).constrained_columns)
        THEN [name |-> relationship_name, target |-> parent_class]
        ELSE [name |-> relationship_name, target |-> parent_class,
              back_populates |-> lower(table_name) \o <<"s">>]

\* the declaration of one foreign key (the body of the loop, lines 77-96)
relationship_of(table_name, fk, insp) ==
    LET parent_table == fk.referred_table
        constrained_columns == fk.constrained_columns
        parent_class == camel_case(parent_table)
        relationship_name == lower(parent_table)
        is_many_to_one ==
            /\ Len(constrained_columns) = 1
            /\ constrained_columns[1] \notin
                   Range(get_pk_constraint(insp, table_name).constrained_columns)
    IN  IF is_many_to_one
        THEN [name |-> relationship_name, target |-> parent_class]
        ELSE [name |-> relationship_name, target |-> parent_class,
              back_populates |-> lower(table_name) \o <<"s">>]

generate_relationships(table_name, insp) ==
    LET fks == get_foreign_keys(insp, table_name)
    IN  IF is_association_table(table_name, fks, insp) THEN <<>>
        ELSE [i \in DOMAIN fks |-> relationship_of(table_name, fks[i], insp)]

-----------------------------------------------------------------------------
(* generate_many_to_many_relationships                                     *)

\* m2m_relationships[key].append(rel), the key being created when absent
\* (lines 114-120)
append_under(m2m, key, rel) ==
    [k \in DOMAIN m2m \cup {key} |->
        IF k = key
        THEN (IF key \in DOMAIN m2m THEN m2m[key] ELSE <<>>) \o <<rel>>
        ELSE m2m[k]]

\* a faulty variant: the relation names carry no plural 's'
m2m_pair_unpluralized(table, fks) ==
    LET table1 == fks[1].referred_table
        table2 == fks[2].referred_table
    IN  [table1 |-> table1,
         table2 |-> table2,
         rel1 |-> [name |-> table2, target |-> camel_case(table2),
                   secondary |-> table, back_populates |-> table1 \o <<"s">>],
         rel2 |-> [name |-> table1, target |-> camel_case(table1),
                   secondary |-> table, back_populates |-> table2 \o <<"s">>]]

\* the pair of declarations of one association table (lines 106-112)
m2m_pair(table, fks) ==
    LET table1 == fks[1].referred_table
        table2 == fks[2].referred_table
        class1 == camel_case(table1)
        class2 == camel_case(table2)
    IN  [table1 |-> table1,
         table2 |-> table2,
         rel1 |-> [name |-> table2 \o <<"s">>, target |-> class2,
                   secondary |-> table, back_populates |-> table1 \o <<"s">>],
         rel2 |-> [name |-> table1 \o <<"s">>, target |-> class1,
                   secondary |-> table, back_populates |-> table2 \o <<"s">>]]

\* the loop of lines 103-120 over tables[i..], m2m being the mapping built
\* so far
RECURSIVE m2m_from(_, _, _)
m2m_from(insp, i, m2m) ==
    IF i > Len(get_table_names(insp)) THEN m2m
    ELSE LET table == get_table_names(insp)[i]
             fks == get_foreign_keys(insp, table)
         IN  IF is_association_table(table, fks, insp)
             THEN LET p == m2m_pair(table, fks)
                  IN  m2m_from(insp, i + 1,
                          append_under(append_under(m2m, p.table1, p.rel1),
                                       p.table2, p.rel2))
             ELSE m2m_from(insp, i + 1, m2m)

\* a faulty variant: the second declaration replaces what its table had collected
generate_many_to_many_relationships_overwriting(insp) ==
    LET RECURSIVE go(_, _)
        go(i, m2m) ==
            IF i > Len(get_table_names(insp)) THEN m2m
            ELSE LET table == get_table_names(insp)[i]
                     fks == get_foreign_keys(insp, table)
                 IN  IF is_association_table(table, fks, insp)
                     THEN LET p == m2m_pair(table, fks)
                              m1 == append_under(m2m, p.table1, p.rel1)
                          IN  go(i + 1, [k \in DOMAIN m1 \cup {p.table2} |->
                                            IF k = p.table2 THEN <<p.rel2>> ELSE m1[k]])
                     ELSE go(i + 1, m2m)
    IN  go(1, <<>>)

\* the mapping from referred table name to its list of declarations; the
\* empty dict is the function with the empty domain
generate_many_to_many_relationships(insp) == m2m_from(insp, 1, <<>>)

-----------------------------------------------------------------------------
(* generate_model                                                          *)

\* The foreign_key entry of a column record is one of
\*   [kind |-> "None"]                           absent or None
\*   [kind |-> "ForeignKey", target_fullname]    the collaborator's object
\*   [kind |-> "str", value]                     a string
None == [kind |-> "None"]

\* col.get("foreign_key") as a condition: None and the empty string are false
truthy(fk) == fk.kind = "ForeignKey" \/ (fk.kind = "str" /\ fk.value # <<>>)

\* the class block: the record of what lines 36-55 write
generate_model(table_name, cols, relations) ==
    [kind |-> "class",
     class_name |-> camel_case(table_name),
     tablename |-> table_name,
     columns |-> [i \in DOMAIN cols |->
                    [name |-> cols[i].name,
                     type |-> get_column_type(cols[i]),
                     not_nullable |-> ~cols[i].nullable,
                     primary_key |-> cols[i].primary_key,
                     foreign_key |-> IF truthy(cols[i].foreign_key)
                                     THEN cols[i].foreign_key ELSE None]],
     relations |-> relations]

-----------------------------------------------------------------------------
(* generate_models_content                                                 *)

\* Lines 141-145 on the column records of one table, in order: a column
\* whose foreign_key is a ForeignKey object gets its target_fullname in its
\* place; a column whose foreign_key is already a non-empty string has no
\* target_fullname attribute and the f-string raises AttributeError, the
\* columns before it having been rewritten.  The records are the
\* collaborator's own (the inspector hands out the records it keeps), so the
\* assignment of line 143 changes them in place.
resolve_foreign_keys(columns) ==
    LET strs == {i \in DOMAIN columns : columns[i].foreign_key.kind = "str"
                                        /\ truthy(columns[i].foreign_key)}
        stop == IF strs = {} THEN Len(columns) + 1
                ELSE CHOOSE i \in strs : \A j \in strs : i <= j
    IN  [raised |-> strs # {},
         columns |-> [i \in DOMAIN columns |->
                        IF i < stop /\ columns[i].foreign_key.kind = "ForeignKey"
                        THEN [columns[i] EXCEPT !.foreign_key =
                                 [kind |-> "str",
                                  value |-> columns[i].foreign_key.target_fullname]]
                        ELSE columns[i]]]

\* the four lines written before the loop (lines 131-137)
Preamble ==
    [kind |-> "preamble",
     lines |-> <<"from sqlalchemy import Column, Integer, String, Float, DateTime, ForeignKey, Table",
                 "from sqlalchemy.orm import relationship",
                 "from sqlalchemy.ext.declarative import declarative_base",
                 "Base = declarative_base()">>]

\* the Table(...) block of an association table (lines 149-162)
table_block(table, columns) ==
    [kind |-> "Table",
     name |-> table,
     columns |-> [i \in DOMAIN columns |->
                    [name |-> columns[i].name,
                     type |-> get_column_type(columns[i]),
                     foreign_key |-> IF truthy(columns[i].foreign_key)
                                     THEN columns[i].foreign_key ELSE None]]]

\* a faulty variant: the many-to-many declarations come first
relationships_of_m2m_first(table, insp, m2m) ==
    (IF table \in DOMAIN m2m THEN m2m[table] ELSE <<>>)
        \o generate_relationships(table, insp)

\* relationships of an entity table: the per-table pass extended by the
\* table's entry of the many-to-many mapping (lines 164-166)
relationships_of(table, insp, m2m) ==
    generate_relationships(table, insp)
        \o (IF table \in DOMAIN m2m THEN m2m[table] ELSE <<>>)

\* the loop of lines 139-168 over tables[i..]: insp is the inspector as the
\* earlier iterations left it, out the blocks written so far.  The value is
\* the inspector afterwards and the outcome: the text, or the exception.
RECURSIVE content_from(_, _, _, _)
content_from(insp, i, m2m, out) ==
    IF i > Len(get_table_names(insp))
    THEN [inspector |-> insp, outcome |-> [returned |-> out]]
    ELSE LET table == get_table_names(insp)[i]
             r == resolve_foreign_keys(get_columns(insp, table))
             insp1 == [insp EXCEPT !.meta[table].columns = r.columns]
             columns == r.columns
             foreign_keys == get_foreign_keys(insp1, table)
             block == IF is_association_table(table, foreign_keys, insp1)
                      THEN table_block(table, columns)
                      ELSE generate_model(table, columns,
                                          relationships_of(table, insp1, m2m))
         IN  IF r.raised
             THEN [inspector |-> insp1, outcome |-> [raised |-> "AttributeError"]]
             ELSE content_from(insp1, i + 1, m2m, Append(out, block))

generate_models_content(insp) ==
    content_from(insp, 1, generate_many_to_many_relationships(insp), <<Preamble>>)

Returned(r) == "returned" \in DOMAIN r

-----------------------------------------------------------------------------
(* The schemas the functions are run on                                    *)

posts     == <<"p","o","s","t","s">>
tags      == <<"t","a","g","s">>
post_tags == <<"p","o","s","t","_","t","a","g","s">>
API_key   == <<"A","P","I","_","k","e","y">>

INTEGER == <<"I","N","T","E","G","E","R">>
VARCHAR == <<"V","A","R","C","H","A","R">>

MaxTables   == 2    \* tables of a schema
MaxFks      == 4    \* foreign keys of a schema, all tables together (many-to-many pass)
MaxRunFks   == 3    \* foreign keys of a schema, all tables together (generation runs)
MaxTableFks == 3    \* foreign keys of the table of a one-table schema
MaxParts    == 2    \* fragments a raw type name is made of

ForeignKeyRecord(cols, referred) ==
    [constrained_columns |-> cols, referred_table |-> referred,
     referred_columns |-> <<"id">>]

\* the column records the collaborator returns for a table with primary key
\* pk and foreign keys fks; carries: whether a column constrained by a
\* one-column foreign key carries a ForeignKey object
ColumnRecords(pk, fks, carries) ==
    LET used == Range(pk) \cup UNION {Range(fks[i].constrained_columns) : i \in DOMAIN fks}
        names == SelectSeq(<<"id", "title", "post_id", "tag_id">>,
                           LAMBDA c : c = "title" \/ c \in used)
        own(c) == {i \in DOMAIN fks : fks[i].constrained_columns = <<c>>}
    IN  [i \in DOMAIN names |->
            [name |-> names[i],
             type |-> IF names[i] = "title" THEN VARCHAR ELSE INTEGER,
             nullable |-> names[i] \notin Range(pk),
             primary_key |-> names[i] \in Range(pk),
             foreign_key |->
                 IF carries /\ own(names[i]) # {}
                 THEN [kind |-> "ForeignKey",
                       target_fullname |->
                           fks[CHOOSE k \in own(names[i]) :
                                   \A j \in own(names[i]) : k <= j].referred_table
                               \o <<".", "i", "d">>]
                 ELSE None]]

TableRecord(pk, fks, carries) ==
    [columns |-> ColumnRecords(pk, fks, carries), pk |-> pk, fks |-> fks]

\* sequences over S of length exactly n
RECURSIVE SeqsOfLen(_, _)
SeqsOfLen(S, n) ==
    IF n = 0 THEN {<<>>}
    ELSE {Append(q, x) : q \in SeqsOfLen(S, n - 1), x \in S}

\* the subsequences of q of length exactly n
RECURSIVE SubSeqsOfLen(_, _)
SubSeqsOfLen(q, n) ==
    IF n = 0 THEN {<<>>}
    ELSE IF Len(q) < n THEN {}
    ELSE {<<Head(q)>> \o r : r \in SubSeqsOfLen(Tail(q), n - 1)}
             \cup SubSeqsOfLen(Tail(q), n)

\* the tables a schema enumerates are taken from these, in this order
TableNames == <<post_tags, posts, tags>>

PkChoices == {<<"id">>, <<"post_id", "tag_id">>}

FkChoices ==
    {ForeignKeyRecord(<<"post_id">>, posts),
     ForeignKeyRecord(<<"tag_id">>, tags),
     ForeignKeyRecord(<<"tag_id">>, posts)}

\* how many foreign keys each of n tables has, at most k all together
RECURSIVE SumSeq(_)
SumSeq(q) == IF q = <<>> THEN 0 ELSE Head(q) + SumSeq(Tail(q))

FkCounts(n, k) == {c \in [1..n -> 0..k] : SumSeq(c) <= k}

\* the table records of Len(counts) tables, the i-th with counts[i] foreign keys
RECURSIVE TableRecords(_, _)
TableRecords(counts, carries) ==
    IF counts = <<>> THEN {<<>>}
    ELSE {<<TableRecord(pk, fks, carries)>> \o rest :
              pk \in PkChoices, fks \in SeqsOfLen(FkChoices, Head(counts)),
              rest \in TableRecords(Tail(counts), carries)}

\* the inspector of the tables names[i] with the records recs[i]
Inspector(names, recs) ==
    [tables |-> names,
     meta |-> [t \in Range(names) |-> recs[CHOOSE i \in DOMAIN names : names[i] = t]]]

\* one-table schemas, with the richer choice of keys
TablePkChoices == {<<>>, <<"id">>, <<"post_id">>, <<"post_id", "tag_id">>}

TableFkChoices ==
    {ForeignKeyRecord(c, r) :
        c \in {<<"post_id">>, <<"tag_id">>, <<"post_id", "tag_id">>},
        r \in {posts, API_key}}

\* raw type names: up to MaxParts fragments, concatenated
TypeFragments ==
    {<<"I","N","T">>, <<"i","n","t">>, <<"e","g","e","r">>, <<"E","G","E","R">>,
     <<"B","I","G">>, <<"s","m","a","l","l">>, <<"T","I","N","Y">>,
     <<"T","E","X","T">>, <<"V","A","R","C","H","A","R">>, <<"D","A","T","E">>,
     <<"t","i","m","e">>, <<"r","e","a","l">>, <<"P","O">>, <<"(","8",")">>}

RECURSIVE Concat(_)
Concat(q) == IF q = <<>> THEN <<>> ELSE Head(q) \o Concat(Tail(q))

TypeNames ==
    {Concat(q) : q \in UNION {SeqsOfLen(TypeFragments, m) : m \in 0..MaxParts}}

EmptyInspector == [tables |-> <<>>, meta |-> <<>>]
NoColumn == [type |-> <<>>]

-----------------------------------------------------------------------------
(* The operations                                                          *)

NoCall == [op |-> "none"]

Init ==
    /\ \E n \in 0..MaxTables, carries \in BOOLEAN :
         \E names \in SubSeqsOfLen(TableNames, n), counts \in FkCounts(n, MaxRunFks) :
            \E recs \in TableRecords(counts, carries) :
               inspector = Inspector(names, recs)
    /\ call = NoCall
    /\ result = <<>>
    /\ col = NoColumn

InitTable ==
    /\ \E name \in {post_tags, API_key}, pk \in TablePkChoices, m \in 0..MaxTableFks :
         \E fks \in SeqsOfLen(TableFkChoices, m) :
              inspector = Inspector(<<name>>, <<TableRecord(pk, fks, FALSE)>>)
    /\ call = NoCall
    /\ result = <<>>
    /\ col = NoColumn

InitType ==
    /\ inspector = EmptyInspector
    /\ call = NoCall
    /\ result = <<>>
    /\ col \in {[type |-> t] : t \in TypeNames}

\* get_column_type(col)
GetColumnType ==
    /\ call' = [op |-> "get_column_type"]
    /\ result' = get_column_type(col)
    /\ UNCHANGED <<inspector, col>>

\* is_association_table(t, inspector.get_foreign_keys(t), inspector)
IsAssociationTable(t) ==
    /\ call' = [op |-> "is_association_table", table_name |-> t,
                fks |-> get_foreign_keys(inspector, t)]
    /\ result' = is_association_table(t, get_foreign_keys(inspector, t), inspector)
    /\ UNCHANGED <<inspector, col>>

\* generate_relationships(t, inspector)
GenerateRelationships(t) ==
    /\ call' = [op |-> "generate_relationships", table_name |-> t]
    /\ result' = generate_relationships(t, inspector)
    /\ UNCHANGED <<inspector, col>>

\* generate_many_to_many_relationships(inspector)
GenerateManyToManyRelationships ==
    /\ call' = [op |-> "generate_many_to_many_relationships"]
    /\ result' = generate_many_to_many_relationships(inspector)
    /\ UNCHANGED <<inspector, col>>

\* generate_models_content(inspector)
GenerateModelsContent ==
    LET run == generate_models_content(inspector)
    IN  /\ call' = [op |-> "generate_models_content"]
        /\ result' = run.outcome
        /\ inspector' = run.inspector
        /\ UNCHANGED col

Next == GenerateModelsContent

InitM2M ==
    /\ \E n \in 0..MaxTables :
         \E names \in SubSeqsOfLen(TableNames, n), counts \in FkCounts(n, MaxFks) :
            \E recs \in TableRecords(counts, FALSE) :
               inspector = Inspector(names, recs)
    /\ call = NoCall
    /\ result = <<>>
    /\ col = NoColumn

NextM2M == GenerateManyToManyRelationships

NextTable ==
    \/ \E t \in Range(get_table_names(inspector)) : IsAssociationTable(t)
    \/ \E t \in Range(get_table_names(inspector)) : GenerateRelationships(t)

NextType == GetColumnType

Spec == Init /\ [][Next]_vars

SpecM2M == InitM2M /\ [][NextM2M]_vars

SpecTable == InitTable /\ [][NextTable]_vars

SpecType == InitType /\ [][NextType]_vars

-----------------------------------------------------------------------------
(* Properties                                                              *)

ColumnsOfFk(fk) == Range(fk.constrained_columns)

\* exactly two foreign keys, every primary-key column constrained by one of
\* them and every constrained column a primary-key column
IsJunction(pk, fks) ==
    /\ Len(fks) = 2
    /\ \A c \in Range(pk) : \E k \in DOMAIN fks : c \in ColumnsOfFk(fks[k])
    /\ \A k \in DOMAIN fks : \A c \in ColumnsOfFk(fks[k]) : c \in Range(pk)

Called(op) == call.op = op

\* C1: is_association_table returns true exactly for a table with exactly
\* two foreign keys whose constrained columns, taken together, are the
\* primary-key columns; with zero, one, three or more foreign keys, or a
\* primary key the foreign-key columns do not exactly cover, it returns false.
C1_AssociationIffTwoFksCoverPk ==
    Called("is_association_table") =>
        LET pk == inspector.meta[call.table_name].pk
        IN  /\ result \in BOOLEAN
            /\ result <=> IsJunction(pk, call.fks)
            /\ Len(call.fks) # 2 => result = FALSE
            /\ (\E c \in Range(pk) : \A k \in DOMAIN call.fks : c \notin ColumnsOfFk(call.fks[k]))
                   => result = FALSE
            /\ (\E k \in DOMAIN call.fks : \E c \in ColumnsOfFk(call.fks[k]) : c \notin Range(pk))
                   => result = FALSE

\* a table with a two-column primary key and one foreign key on each column
\* was classified as an association table
C1_Witness ==
    /\ Called("is_association_table")
    /\ result = TRUE
    /\ inspector.meta[call.table_name].pk = <<"post_id", "tag_id">>
    /\ call.fks[1].constrained_columns = <<"post_id">>
    /\ call.fks[2].constrained_columns = <<"tag_id">>

\* C2: for an entity table, generate_relationships declares every foreign
\* key, in order: the plain many-to-one form (name: the lower-cased referred
\* table, target: camel_case of the referred table, no back-reference) exactly
\* when the key has one constrained column and that column is not in the
\* primary key; otherwise the form with back_populates = the lower-cased
\* referencing table name followed by 's'.
C2_ManyToOneOrBackReference ==
    Called("generate_relationships") =>
        LET t == call.table_name
            pk == inspector.meta[t].pk
            fks == inspector.meta[t].fks
        IN  ~IsJunction(pk, fks) =>
              /\ Len(result) = Len(fks)
              /\ \A i \in DOMAIN fks :
                   LET cols == fks[i].constrained_columns
                       plain == Len(cols) = 1 /\ cols[1] \notin Range(pk)
                   IN  /\ result[i].name = lower(fks[i].referred_table)
                       /\ result[i].target = camel_case(fks[i].referred_table)
                       /\ plain <=> DOMAIN result[i] = {"name", "target"}
                       /\ ~plain <=>
                            /\ DOMAIN result[i] = {"name", "target", "back_populates"}
                            /\ result[i].back_populates = lower(t) \o <<"s">>

\* API_key, an entity table, was given three foreign keys: a one-column key
\* outside the primary key, a one-column key inside it and a two-column key
C2_Witness ==
    /\ Called("generate_relationships")
    /\ call.table_name = API_key
    /\ inspector.meta[API_key].pk = <<"post_id">>
    /\ Len(result) = 3
    /\ result[1] = [name |-> <<"a","p","i","_","k","e","y">>,
                    target |-> <<"A","p","i","K","e","y">>]
    /\ inspector.meta[API_key].fks[2].constrained_columns = <<"post_id">>
    /\ result[2] = [name |-> posts, target |-> <<"P","o","s","t","s">>,
                    back_populates |-> <<"a","p","i","_","k","e","y","s">>]
    /\ Len(inspector.meta[API_key].fks[3].constrained_columns) = 2
    /\ "back_populates" \in DOMAIN result[3]

\* the association tables of the schema, by the rule of C1
Junctions ==
    {t \in Range(inspector.tables) : IsJunction(inspector.meta[t].pk, inspector.meta[t].fks)}

\* the places <<T, i>> of the declarations of a many-to-many mapping
Places(m) == UNION {{<<T, i>> : i \in DOMAIN m[T]} : T \in DOMAIN m}

\* the places of J's declarations, and the two declarations being mirrors
PlacesOf(m, J) == {p \in Places(m) : m[p[1]][p[2]].secondary = J}

Mirrors(d, e) == d.back_populates = e.name /\ e.back_populates = d.name

\* C3: in the mapping returned by generate_many_to_many_relationships every
\* association table J with referred tables T1, T2 has a declaration under
\* T1 and one under T2 with secondary = J, each naming the other as its
\* back-reference; a declaration never comes without its mirror, and the
\* declarations of several association tables accumulate, none being dropped.
C3_ManyToManyPairs ==
    Called("generate_many_to_many_relationships") =>
        /\ \A J \in Junctions :
             LET T1 == inspector.meta[J].fks[1].referred_table
                 T2 == inspector.meta[J].fks[2].referred_table
             IN  /\ T1 \in DOMAIN result /\ T2 \in DOMAIN result
                 /\ Cardinality(PlacesOf(result, J)) = 2
                 /\ \E p, q \in PlacesOf(result, J) :
                      /\ p # q
                      /\ p[1] = T1 /\ q[1] = T2
                      /\ Mirrors(result[T1][p[2]], result[T2][q[2]])
        /\ \A p \in Places(result) :
             /\ result[p[1]][p[2]].secondary \in Junctions
             /\ \E q \in PlacesOf(result, result[p[1]][p[2]].secondary) :
                  q # p /\ Mirrors(result[p[1]][p[2]], result[q[1]][q[2]])
        /\ \A T \in DOMAIN result :
             Len(result[T]) =
                 Cardinality({<<J, k>> \in Junctions \X {1, 2} :
                                 inspector.meta[J].fks[k].referred_table = T})

\* two association tables on the same pair of tables: posts has collected
\* one declaration from each
C3_Witness ==
    /\ Called("generate_many_to_many_relationships")
    /\ Cardinality(Junctions) = 2
    /\ posts \in DOMAIN result
    /\ tags \in DOMAIN result
    /\ Len(result[posts]) = 2
    /\ Len(result[tags]) = 2
    /\ result[posts][1].secondary # result[posts][2].secondary
    /\ result[posts][1].name = result[posts][2].name

\* the schema of C4: post_tags(post_id -> posts.id, tag_id -> tags.id), both
\* columns forming the primary key
HasPostTags ==
    /\ post_tags \in Range(inspector.tables)
    /\ inspector.meta[post_tags].pk = <<"post_id", "tag_id">>
    /\ inspector.meta[post_tags].fks =
           <<ForeignKeyRecord(<<"post_id">>, posts), ForeignKeyRecord(<<"tag_id">>, tags)>>

Holds(m, T, d) == T \in DOMAIN m /\ \E i \in DOMAIN m[T] : m[T][i] = d

\* C4 as claimed: posts gets the relation named 'tags' (class Tags, secondary
\* post_tags, back-reference 'posts') and tags the relation named 'posts'
\* (class Posts, secondary post_tags, back-reference 'tags').
C4_AsClaimed ==
    (Called("generate_many_to_many_relationships") /\ HasPostTags) =>
        /\ Holds(result, posts,
                 [name |-> <<"t","a","g","s">>, target |-> <<"T","a","g","s">>,
                  secondary |-> post_tags, back_populates |-> <<"p","o","s","t","s">>])
        /\ Holds(result, tags,
                 [name |-> <<"p","o","s","t","s">>, target |-> <<"P","o","s","t","s">>,
                  secondary |-> post_tags, back_populates |-> <<"t","a","g","s">>])

\* C4, amended: the names are the referred table names with 's' appended:
\* posts gets 'tagss' (class Tags, secondary post_tags, back-reference
\* 'postss') and tags gets 'postss' (class Posts, secondary post_tags,
\* back-reference 'tagss').
C4_PostTagsPair ==
    (Called("generate_many_to_many_relationships") /\ HasPostTags) =>
        /\ Holds(result, posts,
                 [name |-> <<"t","a","g","s","s">>, target |-> <<"T","a","g","s">>,
                  secondary |-> post_tags, back_populates |-> <<"p","o","s","t","s","s">>])
        /\ Holds(result, tags,
                 [name |-> <<"p","o","s","t","s","s">>, target |-> <<"P","o","s","t","s">>,
                  secondary |-> post_tags, back_populates |-> <<"t","a","g","s","s">>])

\* the many-to-many pass has run on the schema posts, tags, post_tags
C4_Witness ==
    /\ Called("generate_many_to_many_relationships")
    /\ HasPostTags
    /\ inspector.tables = <<post_tags, posts>>
    /\ DOMAIN result = {posts, tags}
    /\ Len(result[posts]) = 1

KeyIn(c, i) == Contains(lower(c.type), type_map[i].key)

int == <<"i","n","t">>

\* C5 as claimed: a type name containing 'int', in any case, gives Integer
\* unless a key of the table that stands for another type is a substring too;
\* a name matching no key gives String.
C5_AsClaimed ==
    Called("get_column_type") =>
        /\ (Contains(lower(col.type), int)
              /\ ~\E i \in DOMAIN type_map : type_map[i].value # "Integer" /\ KeyIn(col, i))
               => result = "Integer"
        /\ (\A i \in DOMAIN type_map : ~KeyIn(col, i)) => result = "String"

\* C5, amended: a type name containing 'integer', 'bigint' or 'smallint', in
\* any case, gives Integer (these are the first three keys, no key precedes
\* them with another type); 'int' alone is no key; a name matching no key
\* gives String; the function always returns one of the four types.
C5_IntegerFamily ==
    Called("get_column_type") =>
        /\ result \in {"Integer", "String", "Float", "DateTime"}
        /\ (\E i \in 1..3 : KeyIn(col, i)) => result = "Integer"
        /\ (\A i \in DOMAIN type_map : ~KeyIn(col, i)) => result = "String"
        /\ (Contains(lower(col.type), int) /\ \A i \in DOMAIN type_map : ~KeyIn(col, i))
               => result = "String"

\* 'BIGint', which contains the key 'bigint' once lower-cased, went to Integer
C5_Witness ==
    /\ Called("get_column_type")
    /\ col.type = <<"B","I","G","i","n","t">>
    /\ result = "Integer"

\* the class block written for table T, if any
ClassBlocksOf(out, T) ==
    {i \in DOMAIN out : out[i].kind = "class" /\ out[i].class_name = T}

GenerationReturned == Called("generate_models_content") /\ Returned(result)

\* C6 as claimed: a generation run that directly follows a generation run on
\* the same inspector completes, as the first did, with the same text.
C6_SecondRunSameText ==
    [][(Called("generate_models_content") /\ call'.op = "generate_models_content")
          => (Returned(result) /\ Returned(result') /\ result' = result)]_vars

\* C7 as claimed: a generation run leaves every record of the inspector as
\* it was.
C7_SnapshotUnchanged ==
    [][call'.op = "generate_models_content" => inspector' = inspector]_vars

\* C8: the text a generation run returns is the preamble followed by one
\* block per table, in enumeration order: a Table(...) block without relation
\* declarations for an association table, and otherwise a class whose
\* relation declarations are those of generate_relationships for the table
\* followed by the table's entry of the many-to-many mapping.
C8_OneBlockPerTable ==
    GenerationReturned =>
        LET out == result.returned
            ts == inspector.tables
            m2m == generate_many_to_many_relationships(inspector)
        IN  /\ Len(out) = Len(ts) + 1
            /\ out[1] = Preamble
            /\ \A i \in DOMAIN ts :
                 LET b == out[i + 1]
                 IN  IF ts[i] \in Junctions
                     THEN /\ b.kind = "Table"
                          /\ b.name = ts[i]
                          /\ "relations" \notin DOMAIN b
                     ELSE /\ b.kind = "class"
                          /\ b.tablename = ts[i]
                          /\ b.relations =
                                generate_relationships(ts[i], inspector)
                                  \o (IF ts[i] \in DOMAIN m2m THEN m2m[ts[i]] ELSE <<>>)

\* a run returned a Table block for post_tags followed by the class of posts,
\* which declares one relation of its own foreign key and then the
\* many-to-many relation through post_tags
C8_Witness ==
    /\ GenerationReturned
    /\ inspector.tables = <<post_tags, posts>>
    /\ result.returned[2].kind = "Table"
    /\ result.returned[3].kind = "class"
    /\ Len(result.returned[3].relations) = 2
    /\ "secondary" \notin DOMAIN result.returned[3].relations[1]
    /\ "secondary" \in DOMAIN result.returned[3].relations[2]
    /\ result.returned[3].relations[2].secondary = post_tags

\* the empty schema gave the preamble alone
C8_WitnessEmpty ==
    GenerationReturned /\ inspector.tables = <<>> /\ result.returned = <<Preamble>>

\* C9 as claimed: in the returned text every declaration with a
\* back-reference name X and target class T has a relation named X in the
\* class block of T.
C9_BackReferencesResolve ==
    GenerationReturned =>
        LET out == result.returned
        IN  \A i \in DOMAIN out :
              out[i].kind = "class" =>
                \A r \in DOMAIN out[i].relations :
                  LET d == out[i].relations[r]
                  IN  "back_populates" \in DOMAIN d =>
                        \E j \in ClassBlocksOf(out, d.target) :
                          \E q \in DOMAIN out[j].relations :
                             out[j].relations[q].name = d.back_populates

\* C10 as claimed: the relation declarations of a class have pairwise
\* distinct names.
C10_DistinctRelationNames ==
    GenerationReturned =>
        LET out == result.returned
        IN  \A i \in DOMAIN out :
              out[i].kind = "class" =>
                \A r, q \in DOMAIN out[i].relations :
                  r # q => out[i].relations[r].name # out[i].relations[q].name

====
